---- MODULE Spec2Model ----
(***************************************************************************)
(* A model of the release and code-generation scripts of ReactPress:       *)
(*   scripts/publish-packages.js         the package publisher             *)
(*   toolkit/scripts/generate-api*.js    the OpenAPI client generators     *)
(* Spec     is the publisher's main() as a state machine.                  *)
(* SpecVer  is the probing loop of getNextAvailableVersion, probe by probe.*)
(* SpecGen  is one run of either code-generation script.                   *)
(* SpecText applies the scripts' text substitutions to generated sources.  *)
(***************************************************************************)
EXTENDS Integers, Sequences, FiniteSets, TLC

VARIABLES
    pc,              \* position of main() in publish-packages.js
    fs,              \* the package directories: path -> manifest (package.json)
    fs0,             \* history: the file system as it was when the script started
    noBuild,         \* process.argv.includes('--no-build')
    action,          \* answer to the first menu
    versionType,     \* answer to the "Version bump type" menu
    tag,             \* publish-prerelease: answer to the "Select prerelease tag" menu
    isMasterBranch,  \* publish-all: the branch is master or main
    idx,             \* index in packages of the package being processed
    newVersion,      \* newVersion / baseVersion of the running flow
    packageVersions, \* name -> version, the map handed to fixWorkspaceDependencies
    thrown,          \* an exception is propagating out of main()
    exitCode,        \* status the process ended with (NoExit while it runs)
    trace,           \* history: the calls and console lines so far, in order
    published,       \* history: every publishPackage call, with the manifest it saw
    gv,              \* the locals of one getNextAvailableVersion call (SpecVer)
    gen,             \* one run of a code-generation script (SpecGen)
    txt              \* a generated source text under the substitutions (SpecText)

vars == <<pc, fs, fs0, noBuild, action, versionType, tag, isMasterBranch, idx,
          newVersion, packageVersions, thrown, exitCode, trace, published, gv, gen, txt>>

pubVars == <<pc, fs, fs0, noBuild, action, versionType, tag, isMasterBranch, idx,
             newVersion, packageVersions, thrown, exitCode, trace, published>>

-----------------------------------------------------------------------------
(* The packages, in build order.                                           *)

\* The list with the client first.
packagesClientFirst ==
    << [name |-> "@fecommunity/reactpress-client", path |-> "client"],
       [name |-> "@fecommunity/reactpress-config", path |-> "config"],
       [name |-> "@fecommunity/reactpress-server", path |-> "server"] >>

packages ==
    << [name |-> "@fecommunity/reactpress-config", path |-> "config"],
       [name |-> "@fecommunity/reactpress-server", path |-> "server"],
       [name |-> "@fecommunity/reactpress-client", path |-> "client"] >>

PackageIdx == 1..Len(packages)
Paths == {packages[i].path : i \in PackageIdx}
InternalNames == {packages[i].name : i \in PackageIdx}

\* packages.find(p => p.name === depName) is not undefined
IsInternal(depName) == \E i \in PackageIdx : packages[i].name = depName

\* A workspace package that is not in the packages list.
ToolkitName == "@fecommunity/reactpress-toolkit"
DepNames == InternalNames \cup {ToolkitName}
depTypes == <<"dependencies", "devDependencies", "peerDependencies">>
DepTypeSet == {depTypes[i] : i \in 1..Len(depTypes)}

-----------------------------------------------------------------------------
(* Version strings.  "M.m.p-t1.n1-t2.n2" is                                *)
(*   [kind |-> "semver", core |-> <<M, m, p>>, pre |-> << <<t1,n1>>, <<t2,n2>> >>].*)
(* kind "unknown" is the literal 'unknown' of getCurrentVersion (with any  *)
(* suffix appended later); kind "undefined" is a manifest without a        *)
(* version field.  NaN is what parseInt yields for a non-numeric part.     *)

NaN == 0 - 1

Semver(core, pre) == [kind |-> "semver", core |-> core, pre |-> pre]
Undefined == [kind |-> "undefined", core |-> <<0, 0, 0>>, pre |-> <<>>]
Unknown == [kind |-> "unknown", core |-> <<NaN, NaN, NaN>>, pre |-> <<>>]

V100 == Semver(<<1, 0, 0>>, <<>>)
V110b1 == Semver(<<1, 1, 0>>, << <<"beta", 1>> >>)
V200 == Semver(<<2, 0, 0>>, <<>>)
V200rc1 == Semver(<<2, 0, 0>>, << <<"rc", 1>> >>)

\* parseInt(x) + 1
PlusOne(n) == IF n = NaN THEN NaN ELSE n + 1

\* version.match(/^(.*)-<label>\.(\d+)$/)
\* A suffix without a number ("-beta") is the pair <<label, NaN>>: (\d+)
\* does not match it.
MatchesPreNever(version, label) == FALSE

MatchesPre(version, label) ==
    /\ Len(version.pre) > 0
    /\ version.pre[Len(version.pre)][1] = label
    /\ version.pre[Len(version.pre)][2] # NaN

BumpPre(version, label) ==
    IF MatchesPre(version, label)
    THEN [version EXCEPT !.pre[Len(version.pre)] =
              <<label, version.pre[Len(version.pre)][2] + 1>>]
    ELSE [version EXCEPT !.pre = Append(version.pre, <<label, 1>>)]

\* incrementVersion(undefined, type) throws a TypeError at version.split
incrementThrows(version) == version.kind = "undefined"

\* incrementVersion without the split('-')[0]: the suffix stays.
incrementVersionKeepingSuffix(version, type) ==
    LET major == version.core[1]
        minor == version.core[2]
        patch == version.core[3]
    IN CASE type = "major" -> Semver(<<PlusOne(major), 0, 0>>, version.pre)
         [] type = "minor" -> Semver(<<major, PlusOne(minor), 0>>, version.pre)
         [] type = "patch" -> Semver(<<major, minor, PlusOne(patch)>>, version.pre)
         [] type = "beta"  -> BumpPre(version, "beta")
         [] type = "alpha" -> BumpPre(version, "alpha")
         [] OTHER          -> version

incrementVersion(version, type) ==
    LET major == version.core[1]
        minor == version.core[2]
        patch == version.core[3]
    IN CASE type = "major" -> Semver(<<PlusOne(major), 0, 0>>, <<>>)
         [] type = "minor" -> Semver(<<major, PlusOne(minor), 0>>, <<>>)
         [] type = "patch" -> Semver(<<major, minor, PlusOne(patch)>>, <<>>)
         [] type = "beta"  -> BumpPre(version, "beta")
         [] type = "alpha" -> BumpPre(version, "alpha")
         [] OTHER          -> version

\* const maxAttempts = 100
maxAttempts == 100

RECURSIVE IncrementTimes(_, _, _)
IncrementTimes(version, type, n) ==
    IF n = 0 \/ incrementThrows(version) THEN version
    ELSE IncrementTimes(incrementVersion(version, type), type, n - 1)

\* getNextAvailableVersion when the first `collisions` probes of npm view
\* succeed (the candidate exists) and the next one fails.  With
\* collisions >= maxAttempts the loop ends by the ceiling, the Error thrown
\* is caught by the function's own catch and the local increment is returned.
getNextAvailableVersion(currentVersion, type, collisions) ==
    IF collisions >= maxAttempts
    THEN incrementVersion(currentVersion, type)
    ELSE IncrementTimes(currentVersion, type, collisions + 1)

-----------------------------------------------------------------------------
(* Manifests.                                                              *)

Absent == [kind |-> "absent", ws |-> "", ver |-> Undefined]
Workspace(range) == [kind |-> "workspace", ws |-> range, ver |-> Undefined]
Concrete(version) == [kind |-> "version", ws |-> "", ver |-> version]

NoDeps == [n \in DepNames |-> Absent]

NoManifest ==
    [exists |-> FALSE, version |-> Undefined, deps |-> [t \in DepTypeSet |-> NoDeps]]

\* getCurrentVersion(packagePath)
getCurrentVersion(files, path) ==
    IF files[path].exists THEN files[path].version ELSE Unknown

\* value.startsWith('workspace:')
IsWorkspaceRange(r) == r.kind = "workspace"

\* packageVersions[depName] is truthy
Truthy(version) == version.kind # "undefined"

FixRange(depName, r, versions) ==
    IF IsWorkspaceRange(r) /\ IsInternal(depName) /\ Truthy(versions[depName])
    THEN Concrete(versions[depName])
    ELSE r

\* the manifest fixWorkspaceDependencies writes back
fixWorkspaceDependencies(manifest, versions) ==
    [manifest EXCEPT !.deps =
        [t \in DepTypeSet |-> [n \in DepNames |-> FixRange(n, manifest.deps[t][n], versions)]]]

RestoreRange(depName, r) ==
    IF r.kind # "absent" /\ IsInternal(depName) THEN Workspace("workspace:*") ELSE r

\* restoreWorkspaceDependencies that writes the manifest back as read.
restoreNothing(manifest) == manifest

\* the manifest restoreWorkspaceDependencies writes back
restoreWorkspaceDependencies(manifest) ==
    [manifest EXCEPT !.deps =
        [t \in DepTypeSet |-> [n \in DepNames |-> RestoreRange(n, manifest.deps[t][n])]]]

\* updateVersion that writes the manifest back as read.
updateVersionNothing(manifest, version) == manifest

\* the manifest updateVersion writes back
updateVersion(manifest, version) == [manifest EXCEPT !.version = version]

\* number of entries fixWorkspaceDependencies replaces
Replaced(manifest, versions) ==
    Cardinality({<<t, n>> \in DepTypeSet \X DepNames :
        FixRange(n, manifest.deps[t][n], versions) # manifest.deps[t][n]})

-----------------------------------------------------------------------------
(* Source text.  A text is a string; the operators below are the string    *)
(* methods and regular expressions the generator scripts use.              *)

Min(S) == CHOOSE a \in S : \A b \in S : a <= b
Max(S) == CHOOSE a \in S : \A b \in S : a >= b

UpperChars == "ABCDEFGHIJKLMNOPQRSTUVWXYZ"
LowerChars == "abcdefghijklmnopqrstuvwxyz"
DigitChars == "0123456789"

Char(s, i) == SubSeq(s, i, i)
CharsOf(s) == {Char(s, i) : i \in 1..Len(s)}

\* [A-Z], [a-z], [a-zA-Z0-9], \w
IsUpper(c) == c \in CharsOf(UpperChars)
IsLower(c) == c \in CharsOf(LowerChars)
IsAlnum(c) == IsUpper(c) \/ IsLower(c) \/ c \in CharsOf(DigitChars)
IsWord(c) == IsAlnum(c) \/ c = "_"

toLowerCase(c) ==
    IF IsUpper(c)
    THEN Char(LowerChars, CHOOSE i \in 1..Len(UpperChars) : Char(UpperChars, i) = c)
    ELSE c

toUpperCase(c) ==
    IF IsLower(c)
    THEN Char(UpperChars, CHOOSE i \in 1..Len(LowerChars) : Char(LowerChars, i) = c)
    ELSE c

\* method.charAt(0).toLowerCase() + method.slice(1)
LowerFirst(s) == IF Len(s) = 0 THEN s ELSE toLowerCase(Char(s, 1)) \o SubSeq(s, 2, Len(s))

StartsWithAt(s, i, pat) ==
    i >= 1 /\ i + Len(pat) - 1 <= Len(s) /\ SubSeq(s, i, i + Len(pat) - 1) = pat

\* s.includes(pat)
includes(s, pat) == \E i \in 1..Len(s) : StartsWithAt(s, i, pat)

\* s.replace(/pat/g, rep) for a pattern without metacharacters
RECURSIVE ReplaceLiteralFrom(_, _, _, _)
ReplaceLiteralFrom(s, from, pat, rep) ==
    LET M == {j \in from..Len(s) : StartsWithAt(s, j, pat)} IN
    IF M = {} THEN SubSeq(s, from, Len(s))
    ELSE LET j == Min(M) IN
         SubSeq(s, from, j - 1) \o rep \o ReplaceLiteralFrom(s, j + Len(pat), pat, rep)

ReplaceLiteral(s, pat, rep) == ReplaceLiteralFrom(s, 1, pat, rep)

\* last index of the run of characters of class word (\w) or alnum
\* ([a-zA-Z0-9]) that starts at i; i - 1 when s[i] is not in the class
RunEnd(s, i, word) ==
    LET In(k) == IF word THEN IsWord(Char(s, k)) ELSE IsAlnum(Char(s, k))
        Stops == {e \in (i - 1)..Len(s) : e = Len(s) \/ ~In(e + 1)}
    IN Min(Stops)

\* first index of the run of \w characters that ends at i
RunStart(s, i) ==
    Max({b \in 1..(i + 1) : b = 1 \/ ~IsWord(Char(s, b - 1))})

-----------------------------------------------------------------------------
(* toolkit/scripts/generate-api-types.js                                   *)

\* content.replace(/from '\.\/([^']+)'/g, (match, importPath) => ...)
RECURSIVE FixTypeImportsFrom(_, _)
FixTypeImportsFrom(s, from) ==
    LET open == "from './"
        Close(j) == {q \in (j + Len(open))..Len(s) : Char(s, q) = "'"}
        M == {j \in from..Len(s) :
                 /\ StartsWithAt(s, j, open)
                 /\ Close(j) # {}
                 /\ Min(Close(j)) > j + Len(open)}
    IN IF M = {} THEN SubSeq(s, from, Len(s))
       ELSE LET j == Min(M)
                q == Min(Close(j))
                importPath == SubSeq(s, j + Len(open), q - 1)
                rep == IF includes(importPath, "contract") \/ importPath = "types"
                       THEN "from '../types/" \o importPath \o "'"
                       ELSE SubSeq(s, j, q)
            IN SubSeq(s, from, j - 1) \o rep \o FixTypeImportsFrom(s, q + 1)

\* the same substitution without the './' in the pattern: /from '([^']+)'/g
RECURSIVE FixAnyImportsFrom(_, _)
FixAnyImportsFrom(s, from) ==
    LET open == "from '"
        Close(j) == {q \in (j + Len(open))..Len(s) : Char(s, q) = "'"}
        M == {j \in from..Len(s) :
                 /\ StartsWithAt(s, j, open)
                 /\ Close(j) # {}
                 /\ Min(Close(j)) > j + Len(open)}
    IN IF M = {} THEN SubSeq(s, from, Len(s))
       ELSE LET j == Min(M)
                q == Min(Close(j))
                importPath == SubSeq(s, j + Len(open), q - 1)
                rep == IF includes(importPath, "contract") \/ importPath = "types"
                       THEN "from '../types/" \o importPath \o "'"
                       ELSE SubSeq(s, j, q)
            IN SubSeq(s, from, j - 1) \o rep \o FixAnyImportsFrom(s, q + 1)

\* fixApiImports with the third pattern matching any path, not only './'
fixApiImportsUnanchored(content) ==
    FixAnyImportsFrom(
        ReplaceLiteral(
            ReplaceLiteral(content, "from './data-contracts'", "from '../types/data-contracts'"),
            "from './httpClient'", "from './HttpClient'"),
        1)

\* fixApiImports: what it writes back for a file holding `content`
fixApiImports(content) ==
    FixTypeImportsFrom(
        ReplaceLiteral(
            ReplaceLiteral(content, "from './data-contracts'", "from '../types/data-contracts'"),
            "from './httpClient'", "from './HttpClient'"),
        1)

\* content.replace(/(\w+)Controller([A-Z]\w+)/g, (match, className, methodName) => ...)
\* A match starts at the first \w run that holds, after at least one
\* character, "Controller", an upper-case letter and one more \w character;
\* (\w+) is greedy, so the last such "Controller" of the run splits it, and
\* the match extends to the end of the run.
RECURSIVE RenameFrom(_, _)
RenameFrom(s, from) ==
    LET lit == "Controller"
        K == {k \in (from + 1)..Len(s) :
                 /\ StartsWithAt(s, k, lit)
                 /\ IsWord(Char(s, k - 1))
                 /\ k + Len(lit) + 1 <= Len(s)
                 /\ IsUpper(Char(s, k + Len(lit)))
                 /\ IsWord(Char(s, k + Len(lit) + 1))}
    IN IF K = {} THEN SubSeq(s, from, Len(s))
       ELSE LET first == Min(K)
                b == Max({from, RunStart(s, first - 1)})
                e == RunEnd(s, first, TRUE)
                k == Max({x \in K : x <= e})
                methodName == SubSeq(s, k + Len(lit), e)
            IN SubSeq(s, from, b - 1) \o LowerFirst(methodName) \o RenameFrom(s, e + 1)

\* renameApiMethods: what it writes back for a file holding `content`
renameApiMethods(content) == RenameFrom(content, 1)

-----------------------------------------------------------------------------
(* toolkit/scripts/generate-api.js                                         *)

\* m.toUpperCase().replace('-', '').replace('_', '') for a match m of
\* [-_][a-z] (two characters) or ^\w (one)
UpperStripped(m) ==
    LET up == IF Len(m) = 2
              THEN toUpperCase(Char(m, 1)) \o toUpperCase(Char(m, 2))
              ELSE toUpperCase(m)
    IN ReplaceLiteral(ReplaceLiteral(up, "-", ""), "_", "")

\* str.replace(/([-_][a-z])/gi, ...)
RECURSIVE CamelFrom(_, _)
CamelFrom(s, from) ==
    LET M == {j \in from..(Len(s) - 1) :
                 /\ Char(s, j) \in {"-", "_"}
                 /\ IsUpper(Char(s, j + 1)) \/ IsLower(Char(s, j + 1))}
    IN IF M = {} THEN SubSeq(s, from, Len(s))
       ELSE LET j == Min(M) IN
            SubSeq(s, from, j - 1) \o UpperStripped(SubSeq(s, j, j + 1)) \o CamelFrom(s, j + 2)

toCamelCase(str) ==
    LET c == CamelFrom(str, 1) IN
    IF Len(c) > 0 /\ IsUpper(Char(c, 1)) THEN LowerFirst(c) ELSE c

\* str.replace(/(^\w|[-_][a-z])/gi, ...)
toPascalCase(str) ==
    IF Len(str) > 0 /\ IsWord(Char(str, 1))
    THEN UpperStripped(Char(str, 1)) \o CamelFrom(str, 2)
    ELSE CamelFrom(str, 1)

\* fileContent.replace(new RegExp(`(${pascal}\\.prototype\\.)${camel}Controller`, 'g'), `$1`)
methodRegexReplace(content, moduleName) ==
    LET head == toPascalCase(moduleName) \o ".prototype." IN
    ReplaceLiteral(content, head \o toCamelCase(moduleName) \o "Controller", head)

\* .replace(/from '\.\/data-contracts';/g, `from '../types';`)
\* .replace(/from '\.\/HttpClient';/g, `from './HttpClient';`)
importPathReplace(content) ==
    ReplaceLiteral(
        ReplaceLiteral(content, "from './data-contracts';", "from '../types';"),
        "from './HttpClient';", "from './HttpClient';")

\* fileContent.replace(new RegExp(`(${camel}Controller)([A-Z][a-zA-Z0-9]*)`, 'g'), ...)
RECURSIVE MethodNameFrom(_, _, _)
MethodNameFrom(s, from, prefix) ==
    LET M == {j \in from..Len(s) :
                 /\ StartsWithAt(s, j, prefix)
                 /\ j + Len(prefix) <= Len(s)
                 /\ IsUpper(Char(s, j + Len(prefix)))}
    IN IF M = {} THEN SubSeq(s, from, Len(s))
       ELSE LET j == Min(M)
                e == RunEnd(s, j + Len(prefix), FALSE)
                method == SubSeq(s, j + Len(prefix), e)
            IN SubSeq(s, from, j - 1) \o LowerFirst(method) \o MethodNameFrom(s, e + 1, prefix)

methodNameRegexReplace(content, moduleName) ==
    MethodNameFrom(content, 1, toCamelCase(moduleName) \o "Controller")

\* organizeGeneratedFiles: what the loop writes back for one API file
organizeApiFile(content, moduleName) ==
    methodNameRegexReplace(
        importPathReplace(methodRegexReplace(content, moduleName)),
        moduleName)

-----------------------------------------------------------------------------
(* The initial file system and the answers a user can give.                *)

InitVersions == {V100, V110b1, Undefined}

DepMap(entries) ==
    [n \in DepNames |->
        IF \E e \in entries : e[1] = n
        THEN (CHOOSE e \in entries : e[1] = n)[2]
        ELSE Absent]

Deps(deps, dev, peer) ==
    [t \in DepTypeSet |->
        CASE t = "dependencies" -> DepMap(deps)
          [] t = "devDependencies" -> DepMap(dev)
          [] OTHER -> DepMap(peer)]

\* Two workspaces: every internal range 'workspace:*', or a mix of the
\* workspace protocol's ranges.
DepLayouts ==
    { [p \in Paths |->
        CASE p = "config" -> Deps({}, {}, {})
          [] p = "server" ->
               Deps({<<packages[1].name, Workspace("workspace:*")>>}, {}, {})
          [] OTHER ->
               Deps({<<packages[1].name, Workspace("workspace:*")>>,
                     <<ToolkitName, Workspace("workspace:*")>>},
                    {<<packages[2].name, Workspace("workspace:*")>>}, {})],
      [p \in Paths |->
        CASE p = "config" -> Deps({}, {<<ToolkitName, Workspace("workspace:^")>>}, {})
          [] p = "server" ->
               Deps({<<packages[1].name, Workspace("workspace:^")>>}, {}, {})
          [] OTHER ->
               Deps({<<packages[1].name, Workspace("workspace:~")>>}, {},
                    {<<packages[2].name, Workspace("workspace:*")>>})] }

\* A file system: each package directory is missing, or holds a manifest
\* whose version is one of InitVersions.
FileSystems ==
    { [p \in Paths |->
          IF present[p]
          THEN [exists |-> TRUE, version |-> version[p], deps |-> layout[p]]
          ELSE NoManifest] :
      present \in [Paths -> BOOLEAN],
      version \in [Paths -> InitVersions],
      layout \in DepLayouts }

Actions == {"publish-all", "publish-one", "build-all", "publish-prerelease", "cancel"}
BumpTypes == {"beta", "patch", "minor", "major", "custom"}
Tags == {"beta", "alpha", "rc", "next"}
Branches == {"master", "main", "develop", "unknown"}

\* What a user may type as a custom version.
InputVersions == {V200, V200rc1}

\* /^\d+\.\d+\.\d+(-[a-zA-Z0-9.-]+)?$/
semverRegexOne(v) ==
    v.kind = "semver" /\ \A i \in 1..3 : v.core[i] # NaN

\* /^\d+\.\d+\.\d+$/
semverRegexAll(v) == semverRegexOne(v) /\ v.pre = <<>>

\* How many candidates in a row npm view reports as existing: a few, or
\* every one up to the ceiling.
MaxCollisions == 0
Collisions == (0..MaxCollisions) \cup {maxAttempts}

NoExit == 0 - 1
NoVersions == [n \in InternalNames |-> Undefined]
GvIdle ==
    [pc |-> "idle", currentVersion |-> Undefined, versionType |-> "",
     nextVersion |-> Undefined, versionExists |-> FALSE, attempts |-> 0,
     probes |-> 0, existing |-> {}, result |-> Undefined]

GenIdle ==
    [script |-> "", pc |-> "idle", inputExists |-> FALSE, made |-> {}, files |-> {},
     generatorRuns |-> 0, moduleName |-> "", content |-> "", exitCode |-> NoExit,
     log |-> <<>>]
TxtIdle ==
    [op |-> "", kind |-> "", moduleName |-> "", input |-> "", content |-> "",
     once |-> "", applied |-> 0]

Event(ev, path) == [ev |-> ev, pkg |-> path, n |-> 0]
Log(line) == Event(line, "")

\* history: what git branch --show-current answered, or the line logged
\* when it failed
BranchEvent(branch) ==
    Log(IF branch = "unknown" THEN "log:unknown-branch" ELSE "branch:" \o branch)

PathOf(name) == packages[CHOOSE i \in PackageIdx : packages[i].name = name].path

\* packages.forEach(pkg => { packageVersions[pkg.name] = getCurrentVersion(pkg.path) })
CurrentVersions == [n \in InternalNames |-> getCurrentVersion(fs, PathOf(n))]

-----------------------------------------------------------------------------
(* main() of publish-packages.js                                           *)

Init ==
    /\ pc = "start"
    /\ fs \in FileSystems
    /\ fs0 = fs
    /\ noBuild \in BOOLEAN
    /\ action = ""
    /\ versionType = ""
    /\ tag = ""
    /\ isMasterBranch = FALSE
    /\ idx = 0
    /\ newVersion = Undefined
    /\ packageVersions = NoVersions
    /\ thrown = FALSE
    /\ exitCode = NoExit
    /\ trace = <<>>
    /\ published = <<>>
    /\ gv = GvIdle
    /\ gen = GenIdle
    /\ txt = TxtIdle

\* process.exit(code), or main() returning (code 0)
Exit(code) == pc' = "exited" /\ exitCode' = code

\* an exception leaves main(): main().catch runs next
Throw == pc' = "catch" /\ thrown' = TRUE

CheckEnvironment ==
    /\ pc = "start"
    /\ \E ok \in BOOLEAN :
         IF ok
         THEN /\ pc' = "menu"
              /\ trace' = Append(trace, Log("log:current-versions"))
              /\ exitCode' = exitCode
         ELSE /\ Exit(1)
              /\ trace' = Append(trace, Log("log:environment-error"))
    /\ UNCHANGED <<fs, fs0, noBuild, action, versionType, tag, isMasterBranch, idx,
                   newVersion, packageVersions, thrown, published, gv, gen, txt>>

PromptAction ==
    /\ pc = "menu"
    /\ \E a \in Actions :
         /\ action' = a
         /\ IF a = "cancel"
            THEN /\ Exit(0)
                 /\ trace' = Append(trace, Log("log:cancelled"))
                 /\ idx' = idx
            ELSE /\ pc' = CASE a = "build-all" -> "buildAll"
                            [] a = "publish-one" -> "onePrompt"
                            [] a = "publish-prerelease" -> "prePrompt"
                            [] OTHER -> "allBranch"
                 /\ idx' = 1
                 /\ UNCHANGED <<trace, exitCode>>
    /\ UNCHANGED <<fs, fs0, noBuild, versionType, tag, isMasterBranch,
                   newVersion, packageVersions, thrown, published, gv, gen, txt>>

\* one iteration of the build-all loop, or the lines after it
BuildAll ==
    /\ pc = "buildAll"
    /\ IF idx > Len(packages)
       THEN /\ Exit(0)
            /\ trace' = Append(trace, Log("log:all-built"))
            /\ UNCHANGED <<idx, thrown>>
       ELSE LET pkg == packages[idx] IN
            IF ~fs[pkg.path].exists
            THEN /\ trace' = Append(trace, Event("log:skipping", pkg.path))
                 /\ idx' = idx + 1
                 /\ UNCHANGED <<pc, thrown, exitCode>>
            ELSE \E ok \in BOOLEAN :
                   IF ok
                   THEN /\ trace' = Append(trace, Event("build", pkg.path))
                        /\ idx' = idx + 1
                        /\ UNCHANGED <<pc, thrown, exitCode>>
                   ELSE /\ trace' = trace \o <<Event("build", pkg.path),
                                               Event("log:build-failed", pkg.path)>>
                        /\ Throw
                        /\ UNCHANGED <<idx, exitCode>>
    /\ UNCHANGED <<fs, fs0, noBuild, action, versionType, tag, isMasterBranch,
                   newVersion, packageVersions, published, gv, gen, txt>>

\* publish-one: the two menus
OnePrompt ==
    /\ pc = "onePrompt"
    /\ \E i \in PackageIdx, vt \in BumpTypes :
         /\ idx' = i
         /\ versionType' = vt
    /\ pc' = "oneVersion"
    /\ UNCHANGED <<fs, fs0, noBuild, action, tag, isMasterBranch, newVersion,
                   packageVersions, thrown, exitCode, trace, published, gv, gen, txt>>

\* publish-one: newVersion and packageVersions
OneVersion ==
    /\ pc = "oneVersion"
    /\ LET pkg == packages[idx]
           currentVersion == getCurrentVersion(fs, pkg.path)
       IN IF versionType # "custom" /\ incrementThrows(currentVersion)
          THEN /\ Throw
               /\ UNCHANGED <<newVersion, packageVersions>>
          ELSE /\ \E v \in IF versionType = "custom"
                           THEN {c \in InputVersions : semverRegexOne(c)}
                           ELSE {getNextAvailableVersion(currentVersion, versionType, k) :
                                     k \in Collisions} :
                     /\ newVersion' = v
                     /\ packageVersions' = [CurrentVersions EXCEPT ![pkg.name] = v]
               /\ pc' = "fix"
               /\ thrown' = thrown
    /\ UNCHANGED <<fs, fs0, noBuild, action, versionType, tag, isMasterBranch, idx,
                   exitCode, trace, published, gv, gen, txt>>

\* fixWorkspaceDependencies(pkg.path, packageVersions), before the try
Fix ==
    /\ pc = "fix"
    /\ LET pkg == packages[idx] IN
       IF ~fs[pkg.path].exists
       THEN /\ Throw
            /\ UNCHANGED <<fs, trace>>
       ELSE /\ fs' = [fs EXCEPT ![pkg.path] = fixWorkspaceDependencies(@, packageVersions)]
            /\ trace' = Append(trace,
                   [Event("fix", pkg.path) EXCEPT !.n = Replaced(fs[pkg.path], packageVersions)])
            /\ pc' = "update"
            /\ thrown' = thrown
    /\ UNCHANGED <<fs0, noBuild, action, versionType, tag, isMasterBranch, idx,
                   newVersion, packageVersions, exitCode, published, gv, gen, txt>>

\* Update with the --no-build test inverted.
UpdateInvertedNoBuild ==
    /\ pc = "update"
    /\ fs' = [fs EXCEPT ![packages[idx].path] = updateVersion(@, newVersion)]
    /\ trace' = Append(trace, Event("updateVersion", packages[idx].path))
    /\ pc' = IF noBuild THEN "build" ELSE "publish"
    /\ UNCHANGED <<fs0, noBuild, action, versionType, tag, isMasterBranch, idx,
                   newVersion, packageVersions, thrown, exitCode, published, gv, gen, txt>>

\* try { updateVersion(pkg.path, newVersion)
Update ==
    /\ pc = "update"
    /\ LET pkg == packages[idx] IN
         /\ fs' = [fs EXCEPT ![pkg.path] = updateVersion(@, newVersion)]
         /\ trace' = Append(trace, Event("updateVersion", pkg.path))
    /\ pc' = IF noBuild THEN "publish" ELSE "build"
    /\ UNCHANGED <<fs0, noBuild, action, versionType, tag, isMasterBranch, idx,
                   newVersion, packageVersions, thrown, exitCode, published, gv, gen, txt>>

\* if (!noBuild) buildPackage(pkg.path, pkg.name)
Build ==
    /\ pc = "build"
    /\ LET pkg == packages[idx] IN
       \E ok \in BOOLEAN :
         IF ok
         THEN /\ trace' = Append(trace, Event("build", pkg.path))
              /\ pc' = "publish"
              /\ thrown' = thrown
         ELSE /\ trace' = trace \o <<Event("build", pkg.path),
                                     Event("log:build-failed", pkg.path)>>
              /\ pc' = "restore"
              /\ thrown' = TRUE
    /\ UNCHANGED <<fs, fs0, noBuild, action, versionType, tag, isMasterBranch, idx,
                   newVersion, packageVersions, exitCode, published, gv, gen, txt>>

\* The dist-tag chosen from the bump type alone.
PublishTagByTypeOnly == IF versionType = "beta" THEN "beta" ELSE "latest"

\* the dist-tag each flow passes to publishPackage
PublishTag ==
    CASE action = "publish-one" -> IF versionType = "beta" THEN "beta" ELSE "latest"
      [] action = "publish-prerelease" -> tag
      [] OTHER -> IF versionType = "beta" /\ ~isMasterBranch THEN "beta" ELSE "latest"

\* publishPackage(pkg.path, pkg.name, tag)
Publish ==
    /\ pc = "publish"
    /\ LET pkg == packages[idx] IN
       \E ok \in BOOLEAN :
         /\ published' = Append(published,
                [path |-> pkg.path, tag |-> PublishTag, manifest |-> fs[pkg.path], ok |-> ok])
         /\ IF ok
            THEN /\ trace' = trace \o
                       IF action = "publish-one"
                       THEN <<Event("publish", pkg.path), Event("log:published", pkg.path)>>
                       ELSE <<Event("publish", pkg.path)>>
                 /\ thrown' = thrown
            ELSE /\ trace' = trace \o <<Event("publish", pkg.path),
                                        Event("log:publish-failed", pkg.path)>>
                 /\ thrown' = TRUE
    /\ pc' = "restore"
    /\ UNCHANGED <<fs, fs0, noBuild, action, versionType, tag, isMasterBranch, idx,
                   newVersion, packageVersions, exitCode, gv, gen, txt>>

\* Restore as it would be after the try block instead of in a finally:
\* skipped while an exception propagates.
RestoreAfterTry ==
    /\ pc = "restore"
    /\ IF thrown
       THEN /\ pc' = "catch"
            /\ UNCHANGED <<fs, trace, idx, exitCode>>
       ELSE /\ fs' = [fs EXCEPT ![packages[idx].path] = restoreWorkspaceDependencies(@)]
            /\ trace' = Append(trace, Event("restore", packages[idx].path))
            /\ IF action = "publish-one"
               THEN pc' = "exited" /\ exitCode' = 0 /\ idx' = idx
               ELSE /\ pc' = IF action = "publish-prerelease" THEN "preLoop" ELSE "allLoop"
                    /\ idx' = idx + 1
                    /\ exitCode' = exitCode
    /\ UNCHANGED <<fs0, noBuild, action, versionType, tag, isMasterBranch,
                   newVersion, packageVersions, thrown, published, gv, gen, txt>>

\* finally { restoreWorkspaceDependencies(pkg.path) }, then what follows the try
Restore ==
    /\ pc = "restore"
    /\ LET pkg == packages[idx] IN
         /\ fs' = [fs EXCEPT ![pkg.path] = restoreWorkspaceDependencies(@)]
         /\ trace' = Append(trace, Event("restore", pkg.path))
    /\ IF thrown
       THEN pc' = "catch" /\ UNCHANGED <<idx, exitCode>>
       ELSE IF action = "publish-one"
            THEN Exit(0) /\ idx' = idx
            ELSE /\ pc' = IF action = "publish-prerelease" THEN "preLoop" ELSE "allLoop"
                 /\ idx' = idx + 1
                 /\ exitCode' = exitCode
    /\ UNCHANGED <<fs0, noBuild, action, versionType, tag, isMasterBranch,
                   newVersion, packageVersions, thrown, published, gv, gen, txt>>

\* main().catch that logs the error and lets the process end normally.
MainCatchNoExit ==
    /\ pc = "catch"
    /\ trace' = Append(trace, Log("log:publishing-failed"))
    /\ pc' = "exited"
    /\ exitCode' = 0
    /\ UNCHANGED <<fs, fs0, noBuild, action, versionType, tag, isMasterBranch, idx,
                   newVersion, packageVersions, thrown, published, gv, gen, txt>>

\* main().catch(error => { console.error(...); process.exit(1) })
MainCatch ==
    /\ pc = "catch"
    /\ trace' = Append(trace, Log("log:publishing-failed"))
    /\ Exit(1)
    /\ UNCHANGED <<fs, fs0, noBuild, action, versionType, tag, isMasterBranch, idx,
                   newVersion, packageVersions, thrown, published, gv, gen, txt>>

\* publish-prerelease: the two menus and the packageVersions map
PrePrompt ==
    /\ pc = "prePrompt"
    /\ \E t \in Tags :
         /\ tag' = t
         /\ \E vt \in {t, "patch", "minor", "major", "custom"} : versionType' = vt
    /\ packageVersions' = CurrentVersions
    /\ idx' = 1
    /\ pc' = "preLoop"
    /\ UNCHANGED <<fs, fs0, noBuild, action, isMasterBranch, newVersion, thrown,
                   exitCode, trace, published, gv, gen, txt>>

\* publish-prerelease: the head of one loop iteration (up to the version
\* bookkeeping), or the lines after the loop.  The custom version prompt is
\* not validated and defaults to the current version; an empty answer is
\* falsy like undefined and is modelled by Undefined.
PreLoop ==
    /\ pc = "preLoop"
    /\ IF idx > Len(packages)
       THEN /\ Exit(0)
            /\ trace' = Append(trace, Log("log:all-published"))
            /\ UNCHANGED <<idx, newVersion, packageVersions, thrown>>
       ELSE LET pkg == packages[idx]
                currentVersion == getCurrentVersion(fs, pkg.path)
            IN IF ~fs[pkg.path].exists
               THEN /\ trace' = Append(trace, Event("log:skipping", pkg.path))
                    /\ idx' = idx + 1
                    /\ UNCHANGED <<pc, newVersion, packageVersions, thrown, exitCode>>
               ELSE IF versionType # "custom" /\ incrementThrows(currentVersion)
               THEN /\ Throw
                    /\ UNCHANGED <<idx, newVersion, packageVersions, exitCode, trace>>
               ELSE /\ \E v \in IF versionType = "custom"
                                THEN InputVersions \cup {currentVersion}
                                ELSE {getNextAvailableVersion(currentVersion, versionType, k) :
                                          k \in Collisions} :
                          /\ newVersion' = v
                          /\ packageVersions' = [packageVersions EXCEPT ![pkg.name] = v]
                    /\ pc' = "fix"
                    /\ UNCHANGED <<idx, thrown, exitCode, trace>>
    /\ UNCHANGED <<fs, fs0, noBuild, action, versionType, tag, isMasterBranch,
                   published, gv, gen, txt>>

\* publish-all: git branch --show-current ("unknown": the command failed)
AllBranch ==
    /\ pc = "allBranch"
    /\ \E branch \in Branches :
         /\ isMasterBranch' = (branch = "master" \/ branch = "main")
         /\ trace' = Append(trace, BranchEvent(branch))
    /\ pc' = "allPrompt"
    /\ UNCHANGED <<fs, fs0, noBuild, action, versionType, tag, idx, newVersion,
                   packageVersions, thrown, exitCode, published, gv, gen, txt>>

\* publish-all: the bump type menu; originalVersions and packageVersions
AllPrompt ==
    /\ pc = "allPrompt"
    /\ \E vt \in BumpTypes : versionType' = vt
    /\ packageVersions' = CurrentVersions
    /\ pc' = "allBase"
    /\ UNCHANGED <<fs, fs0, noBuild, action, tag, isMasterBranch, idx, newVersion,
                   thrown, exitCode, trace, published, gv, gen, txt>>

\* publish-all: baseVersion
AllBase ==
    /\ pc = "allBase"
    /\ LET original == packageVersions[packages[1].name] IN
       IF versionType # "custom" /\ incrementThrows(original)
       THEN /\ Throw
            /\ UNCHANGED <<newVersion, trace>>
       ELSE /\ \E v \in IF versionType = "custom"
                        THEN {c \in InputVersions : semverRegexAll(c)}
                        ELSE {getNextAvailableVersion(original, versionType, k) :
                                  k \in Collisions} :
                  newVersion' = v
            /\ trace' = Append(trace, Log("log:will-publish"))
            /\ pc' = "allConfirm"
            /\ thrown' = thrown
    /\ UNCHANGED <<fs, fs0, noBuild, action, versionType, tag, isMasterBranch, idx,
                   packageVersions, exitCode, published, gv, gen, txt>>

\* publish-all: "Are you sure you want to proceed?"
AllConfirm ==
    /\ pc = "allConfirm"
    /\ \E confirm \in BOOLEAN :
         IF confirm
         THEN /\ pc' = "allLoop"
              /\ UNCHANGED <<exitCode, trace>>
         ELSE /\ Exit(0)
              /\ trace' = Append(trace, Log("log:cancelled"))
    /\ UNCHANGED <<fs, fs0, noBuild, action, versionType, tag, isMasterBranch, idx,
                   newVersion, packageVersions, thrown, published, gv, gen, txt>>

\* publish-all: the head of one loop iteration, or leaving the loop
AllLoop ==
    /\ pc = "allLoop"
    /\ IF idx > Len(packages)
       THEN /\ pc' = "allRelease"
            /\ UNCHANGED <<idx, packageVersions, trace>>
       ELSE LET pkg == packages[idx] IN
            IF ~fs[pkg.path].exists
            THEN /\ trace' = Append(trace, Event("log:skipping", pkg.path))
                 /\ idx' = idx + 1
                 /\ UNCHANGED <<pc, packageVersions>>
            ELSE /\ packageVersions' = [packageVersions EXCEPT ![pkg.name] = newVersion]
                 /\ trace' = Append(trace, Event("log:processing", pkg.path))
                 /\ pc' = "fix"
                 /\ idx' = idx
    /\ UNCHANGED <<fs, fs0, noBuild, action, versionType, tag, isMasterBranch,
                   newVersion, thrown, exitCode, published, gv, gen, txt>>

\* publish-all: createGitHubRelease on master (its failure is only logged),
\* then the closing messages
AllRelease ==
    /\ pc = "allRelease"
    /\ IF isMasterBranch
       THEN \E ok \in BOOLEAN :
              trace' = trace \o <<Log(IF ok THEN "release" ELSE "log:release-failed"),
                                  Log("log:all-published")>>
       ELSE trace' = Append(trace, Log("log:all-published"))
    /\ Exit(0)
    /\ UNCHANGED <<fs, fs0, noBuild, action, versionType, tag, isMasterBranch, idx,
                   newVersion, packageVersions, thrown, published, gv, gen, txt>>

Next ==
    \/ CheckEnvironment
    \/ PromptAction
    \/ BuildAll
    \/ OnePrompt
    \/ OneVersion
    \/ PrePrompt
    \/ PreLoop
    \/ AllBranch
    \/ AllPrompt
    \/ AllBase
    \/ AllConfirm
    \/ AllLoop
    \/ AllRelease
    \/ Fix
    \/ Update
    \/ Build
    \/ Publish
    \/ Restore
    \/ MainCatch

Spec == Init /\ [][Next]_vars

-----------------------------------------------------------------------------
(* getNextAvailableVersion(packageName, currentVersion, versionType), one  *)
(* registry probe per step.  gv.pc: "entry" the call, "loop" the while     *)
(* loop, "catch" the function's own catch block, "returned" a version was  *)
(* returned (gv.result), "thrown" an exception left the function.          *)
(* gv.existing collects the versions a probe reported as existing.         *)

ProbeVersions ==
    {V100, V110b1, Unknown, Undefined,
     Semver(<<0, 9, 9>>, << <<"alpha", 3>> >>),
     Semver(<<1, 0, 0>>, << <<"beta", NaN>> >>),
     Semver(<<3, 2, 1>>, << <<"alpha", 2>>, <<"beta", 7>> >>)}
ProbeTypes == {"major", "minor", "patch", "beta", "alpha", "rc", "next"}

InitVer ==
    /\ pc = "versioning"
    /\ fs = [p \in Paths |-> NoManifest]
    /\ fs0 = fs
    /\ noBuild = FALSE
    /\ action = ""
    /\ versionType = ""
    /\ tag = ""
    /\ isMasterBranch = FALSE
    /\ idx = 0
    /\ newVersion = Undefined
    /\ packageVersions = NoVersions
    /\ thrown = FALSE
    /\ exitCode = NoExit
    /\ trace = <<>>
    /\ published = <<>>
    /\ \E v \in ProbeVersions, t \in ProbeTypes :
         gv = [GvIdle EXCEPT !.pc = "entry", !.currentVersion = v, !.versionType = t]
    /\ gen = GenIdle
    /\ txt = TxtIdle

\* let nextVersion = incrementVersion(currentVersion, versionType); the
\* TypeError of an undefined version is caught by the outer catch
GvEnter ==
    /\ gv.pc = "entry"
    /\ gv' = IF incrementThrows(gv.currentVersion)
             THEN [gv EXCEPT !.pc = "catch"]
             ELSE [gv EXCEPT !.pc = "loop",
                             !.nextVersion = incrementVersion(gv.currentVersion, gv.versionType),
                             !.versionExists = TRUE,
                             !.attempts = 0]
    /\ UNCHANGED <<pubVars, gen, txt>>

\* one iteration of while (versionExists && attempts < maxAttempts):
\* npm view succeeds (the version exists) or fails (anything else)
GvProbe ==
    /\ gv.pc = "loop"
    /\ gv.versionExists /\ gv.attempts < maxAttempts
    /\ \E exists \in BOOLEAN :
         gv' = IF exists
               THEN [gv EXCEPT !.probes = @ + 1,
                               !.existing = @ \cup {gv.nextVersion},
                               !.nextVersion = incrementVersion(gv.nextVersion, gv.versionType),
                               !.attempts = @ + 1]
               ELSE [gv EXCEPT !.probes = @ + 1, !.versionExists = FALSE]
    /\ UNCHANGED <<pubVars, gen, txt>>

\* after the loop: throw at the ceiling (into the outer catch), else return
GvAfterLoop ==
    /\ gv.pc = "loop"
    /\ ~(gv.versionExists /\ gv.attempts < maxAttempts)
    /\ gv' = IF gv.attempts >= maxAttempts
             THEN [gv EXCEPT !.pc = "catch"]
             ELSE [gv EXCEPT !.pc = "returned", !.result = gv.nextVersion]
    /\ UNCHANGED <<pubVars, gen, txt>>

\* catch (error) { console.log(...); return incrementVersion(currentVersion, versionType) }
GvCatch ==
    /\ gv.pc = "catch"
    /\ gv' = IF incrementThrows(gv.currentVersion)
             THEN [gv EXCEPT !.pc = "thrown"]
             ELSE [gv EXCEPT !.pc = "returned",
                             !.result = incrementVersion(gv.currentVersion, gv.versionType)]
    /\ UNCHANGED <<pubVars, gen, txt>>

NextVer == GvEnter \/ GvProbe \/ GvAfterLoop \/ GvCatch

SpecVer == InitVer /\ [][NextVer]_vars

\* The one-step operator used by main() agrees with the loop.
GvAgreement ==
    gv.pc = "returned" =>
        gv.result = getNextAvailableVersion(gv.currentVersion, gv.versionType, gv.attempts)

-----------------------------------------------------------------------------
(* Generated sources: import statements and method definitions.            *)

ImportPaths ==
    {"./data-contracts", "./httpClient", "./HttpClient", "./my-contracts", "./types",
     "./Article", "../types/data-contracts", "../types/types"}

Identifiers ==
    {"articleControllerFindById", "articleControllerX", "userControllerFindAll",
     "findAll", "Article.prototype.articleControllerCreate"}

ModuleNames == {"Article", "user_role"}

ImportLine(path) == "import { I } from '" \o path \o "'; "
MethodLine(name) == name \o " = () => 0; "

MaxImports == 2
MaxMethods == 2

RECURSIVE Lines(_, _)
Lines(seq, kind) ==
    IF seq = <<>> THEN ""
    ELSE (IF kind = "imports" THEN ImportLine(Head(seq)) ELSE MethodLine(Head(seq)))
         \o Lines(Tail(seq), kind)

ImportTexts ==
    {Lines(q, "imports") : q \in UNION {[1..n -> ImportPaths] : n \in 0..MaxImports}}
MethodTexts ==
    {Lines(q, "methods") : q \in UNION {[1..n -> Identifiers] : n \in 0..MaxMethods}}

\* the identifiers (maximal \w runs) of a text
IdentifiersOf(s) ==
    {SubSeq(s, b, RunEnd(s, b, TRUE)) :
        b \in {i \in 1..Len(s) : IsWord(Char(s, i)) /\ (i = 1 \/ ~IsWord(Char(s, i - 1)))}}

-----------------------------------------------------------------------------
(* One run of generate-api-types.js ("types") or generate-api.js ("api").  *)
(* gen.made: directories the run created under the output directory;       *)
(* gen.files: files it put there (paths relative to the output directory); *)
(* gen.content: the text of the generated API module <moduleName>.ts.      *)

Scripts == {"generate-api-types.js", "generate-api.js"}

GeneratedTexts ==
    {ImportLine(p) \o MethodLine(m) :
        p \in {"./data-contracts", "./HttpClient"},
        m \in {"articleControllerFindById", "articleControllerX", "userControllerFindAll"}}

PubIdle ==
    /\ pc = "idle"
    /\ fs = [p \in Paths |-> NoManifest]
    /\ fs0 = fs
    /\ noBuild = FALSE
    /\ action = ""
    /\ versionType = ""
    /\ tag = ""
    /\ isMasterBranch = FALSE
    /\ idx = 0
    /\ newVersion = Undefined
    /\ packageVersions = NoVersions
    /\ thrown = FALSE
    /\ exitCode = NoExit
    /\ trace = <<>>
    /\ published = <<>>

InitGen ==
    /\ PubIdle
    /\ gv = GvIdle
    /\ txt = TxtIdle
    /\ \E sc \in Scripts, present \in BOOLEAN :
         gen = [GenIdle EXCEPT !.script = sc, !.pc = "check", !.inputExists = present]

GenExit(g, code, line) ==
    [g EXCEPT !.pc = "exited", !.exitCode = code, !.log = Append(@, line)]

\* the input check with the process.exit(1) missing
GenCheckInputNoExit ==
    /\ gen.pc = "check"
    /\ gen' = IF gen.inputExists
              THEN [gen EXCEPT !.pc = "ensure"]
              ELSE [gen EXCEPT !.pc = "ensure", !.log = Append(@, "error:input-missing")]
    /\ UNCHANGED <<pubVars, gv, txt>>

\* if (!fs.existsSync(CONFIG.input)) { console.error(...); process.exit(1) }
GenCheckInput ==
    /\ gen.pc = "check"
    /\ gen' = IF gen.inputExists
              THEN [gen EXCEPT !.pc = "ensure"]
              ELSE GenExit(gen, 1, "error:input-missing")
    /\ UNCHANGED <<pubVars, gv, txt>>

\* fs.ensureDirSync(...) at the head of the try
GenEnsureDirs ==
    /\ gen.pc = "ensure"
    /\ gen' = [gen EXCEPT !.pc = "generate",
                          !.made = @ \cup IF gen.script = "generate-api.js"
                                          THEN {".", "utils", "types", "api"}
                                          ELSE {"."}]
    /\ UNCHANGED <<pubVars, gv, txt>>

\* await generateApi({...}): the generator writes data-contracts.ts,
\* HttpClient.ts and one file per API module, or throws into the catch
GenGenerate ==
    /\ gen.pc = "generate"
    /\ \E ok \in BOOLEAN :
         IF ok
         THEN \E m \in ModuleNames, text \in GeneratedTexts :
                gen' = [gen EXCEPT !.pc = "move",
                                   !.generatorRuns = @ + 1,
                                   !.moduleName = m,
                                   !.content = text,
                                   !.files = @ \cup {"data-contracts.ts", "HttpClient.ts",
                                                     m \o ".ts"}]
         ELSE gen' = GenExit([gen EXCEPT !.generatorRuns = @ + 1], 1, "error:generate")
    /\ UNCHANGED <<pubVars, gv, txt>>

\* organizeGeneratedFiles: the moves of the generated files
\* generate-api-types.js: by file name, into api/ or types/ or left in place
\* generate-api.js: data-contracts.ts to types/index.ts, HttpClient.ts to api/
GenMove ==
    /\ gen.pc = "move"
    /\ LET file == gen.moduleName \o ".ts" IN
       gen' = IF gen.script = "generate-api-types.js"
              THEN [gen EXCEPT
                      !.pc = "fixImports",
                      !.made = @ \cup {"api", "types", "utils"},
                      !.files = IF IsUpper(Char(file, 1))
                                THEN (@ \ {"data-contracts.ts", "HttpClient.ts", file})
                                     \cup {"types/data-contracts.ts", "api/HttpClient.ts",
                                           "api/" \o file}
                                ELSE (@ \ {"data-contracts.ts", "HttpClient.ts"})
                                     \cup {"types/data-contracts.ts", "api/HttpClient.ts"}]
              ELSE [gen EXCEPT
                      !.pc = "organizeApiFile",
                      !.files = (@ \ {"data-contracts.ts", "HttpClient.ts"})
                                \cup {"types/index.ts", "api/HttpClient.ts"}]
    /\ UNCHANGED <<pubVars, gv, txt>>

InApi(g) == ("api/" \o g.moduleName \o ".ts") \in g.files

\* generate-api-types.js: fixHttpClient, then fixApiImports over api/*.ts
GenFixImports ==
    /\ gen.pc = "fixImports"
    /\ gen' = [gen EXCEPT !.pc = "rename",
                          !.content = IF InApi(gen) THEN fixApiImports(@) ELSE @]
    /\ UNCHANGED <<pubVars, gv, txt>>

\* generate-api-types.js: renameApiMethods over the capitalised api/*.ts
GenRenameMethods ==
    /\ gen.pc = "rename"
    /\ gen' = [gen EXCEPT !.pc = "indexes",
                          !.content = IF InApi(gen) THEN renameApiMethods(@) ELSE @]
    /\ UNCHANGED <<pubVars, gv, txt>>

\* generate-api.js: the loop over the API files (move to api/, rewrite)
GenOrganizeApiFile ==
    /\ gen.pc = "organizeApiFile"
    /\ LET file == gen.moduleName \o ".ts" IN
       gen' = [gen EXCEPT !.pc = "indexes",
                          !.files = (@ \ {file}) \cup {"api/" \o file},
                          !.content = organizeApiFile(@, gen.moduleName)]
    /\ UNCHANGED <<pubVars, gv, txt>>

\* the index, instance and utility files each script writes; then
\* generate-api-types.js is done, generate-api.js goes on to the cleanup
GenWriteIndexes ==
    /\ gen.pc = "indexes"
    /\ gen' = IF gen.script = "generate-api-types.js"
              THEN GenExit([gen EXCEPT !.files = @ \cup
                              {"types/index.ts", "api/index.ts", "index.ts",
                               "api/ApiInstance.ts", "utils/http.ts", "utils/common.ts",
                               "utils/index.ts"}],
                           0, "done")
              ELSE [gen EXCEPT !.pc = "cleanup",
                               !.files = @ \cup {"api/index.ts", "api/instance.ts",
                                                 "utils/index.ts", "index.ts"}]
    /\ UNCHANGED <<pubVars, gv, txt>>

\* generate-api.js: cleanupTempFiles removes every .ts file of the output
\* directory itself except index.ts
GenCleanup ==
    /\ gen.pc = "cleanup"
    /\ gen' = GenExit([gen EXCEPT !.files = {f \in @ : includes(f, "/") \/ f = "index.ts"}],
                      0, "done")
    /\ UNCHANGED <<pubVars, gv, txt>>

NextGen ==
    \/ GenCheckInput
    \/ GenEnsureDirs
    \/ GenGenerate
    \/ GenMove
    \/ GenFixImports
    \/ GenRenameMethods
    \/ GenOrganizeApiFile
    \/ GenWriteIndexes
    \/ GenCleanup

SpecGen == InitGen /\ [][NextGen]_vars

-----------------------------------------------------------------------------
(* The substitutions applied, once or again, to a text of api/.            *)
(* txt.once is the text after the first application.                       *)

MaxApplications == 2

TextInputs ==
    {[TxtIdle EXCEPT !.op = "fixApiImports", !.kind = "imports", !.input = t] :
        t \in ImportTexts}
    \cup {[TxtIdle EXCEPT !.op = "renameApiMethods", !.kind = "methods", !.input = t] :
        t \in MethodTexts}
    \cup {[TxtIdle EXCEPT !.op = "organizeApiFile", !.kind = "imports", !.input = t,
                          !.moduleName = m] :
        t \in ImportTexts, m \in ModuleNames}
    \cup {[TxtIdle EXCEPT !.op = "organizeApiFile", !.kind = "methods", !.input = t,
                          !.moduleName = m] :
        t \in MethodTexts, m \in ModuleNames}

InitText ==
    /\ PubIdle
    /\ gv = GvIdle
    /\ gen = GenIdle
    /\ \E t \in TextInputs : txt = [t EXCEPT !.content = t.input, !.once = t.input]

Applied(t, result) ==
    [t EXCEPT !.content = result,
              !.once = IF t.applied = 0 THEN result ELSE @,
              !.applied = @ + 1]

ApplyFixApiImports ==
    /\ txt.op = "fixApiImports"
    /\ txt.applied < MaxApplications
    /\ txt' = Applied(txt, fixApiImports(txt.content))
    /\ UNCHANGED <<pubVars, gv, gen>>

ApplyRenameApiMethods ==
    /\ txt.op = "renameApiMethods"
    /\ txt.applied < MaxApplications
    /\ txt' = Applied(txt, renameApiMethods(txt.content))
    /\ UNCHANGED <<pubVars, gv, gen>>

ApplyOrganizeApiFile ==
    /\ txt.op = "organizeApiFile"
    /\ txt.applied < MaxApplications
    /\ txt' = Applied(txt, organizeApiFile(txt.content, txt.moduleName))
    /\ UNCHANGED <<pubVars, gv, gen>>

NextText == ApplyFixApiImports \/ ApplyRenameApiMethods \/ ApplyOrganizeApiFile

SpecText == InitText /\ [][NextText]_vars

-----------------------------------------------------------------------------
(* Properties of the publisher.                                            *)

PublishFlows == {"publish-one", "publish-prerelease", "publish-all"}
LoopFlows == {"publish-prerelease", "publish-all"}
FailureLines == {"log:build-failed", "log:publish-failed"}
SuccessLines == {"log:all-built", "log:all-published", "log:published"}

\* some dependency on an internal package holds a concrete version
InFixedState(manifest) ==
    \E t \in DepTypeSet, n \in InternalNames : manifest.deps[t][n].kind = "version"

TraceIdx == 1..Len(trace)
Failed == \E i \in TraceIdx : trace[i].ev \in FailureLines

\* C1: in a publish flow, when the build or the publish of a package has
\* failed, restoreWorkspaceDependencies has run for that package by the time
\* the error reaches main().catch, and from then on (so also when the
\* process has ended) no dependency on an internal package in that manifest
\* holds a concrete version.
C1_RestoredBeforeErrorPropagates ==
    \A i \in TraceIdx :
        (/\ action \in PublishFlows
         /\ trace[i].ev \in FailureLines
         /\ pc \in {"catch", "exited"})
        => /\ \E j \in TraceIdx : j > i /\ trace[j] = Event("restore", trace[i].pkg)
           /\ ~InFixedState(fs[trace[i].pkg])

\* C1 witness: the process has ended after a failed build or publish of a
\* package whose manifest fixWorkspaceDependencies had rewritten.
C1_Witness ==
    /\ pc = "exited"
    /\ exitCode = 1
    /\ \E i, j \in TraceIdx :
         /\ i < j
         /\ trace[i].ev = "fix" /\ trace[i].n > 0
         /\ trace[j].ev \in FailureLines /\ trace[j].pkg = trace[i].pkg

\* C2: after a publish attempt of a package (fixWorkspaceDependencies, then
\* restoreWorkspaceDependencies), the dependencies, devDependencies and
\* peerDependencies of its manifest are exactly what they were before.
C2_RangesRestoredExactly ==
    \A i \in TraceIdx :
        trace[i].ev = "restore" => fs[trace[i].pkg].deps = fs0[trace[i].pkg].deps

\* C3: getNextAvailableVersion probes the registry at most maxAttempts
\* times, and when every probed candidate exists and the ceiling is reached
\* it does not return a version.
C3_CeilingDeclaresFailure ==
    /\ gv.probes <= maxAttempts
    /\ gv.attempts >= maxAttempts => gv.pc # "returned"

\* C4: in every flow, once a build or a publish has failed the run only
\* unwinds (the finally block, then main().catch); it ends with exit status
\* 1, the error line of main().catch logged last, and no success line is
\* printed after the failure.
C4_FailureExitsOne ==
    Failed =>
        /\ pc \in {"restore", "catch", "exited"}
        /\ pc = "exited" =>
              /\ exitCode = 1
              /\ trace[Len(trace)] = Log("log:publishing-failed")
        /\ \A i, j \in TraceIdx :
              (i < j /\ trace[i].ev \in FailureLines) => trace[j].ev \notin SuccessLines

\* C4 witness: a run that ended after a failed build or publish.
C4_Witness == Failed /\ pc = "exited"

\* C7: for each package a publish flow processes, publishPackage runs only
\* after fixWorkspaceDependencies and then updateVersion (and buildPackage,
\* unless --no-build) have run for it, in that order, and before its
\* restoreWorkspaceDependencies; restore runs only after the publish attempt
\* or after a failed step has cut the attempt short.
C7_StepOrder ==
    /\ \A i \in TraceIdx :
         trace[i].ev = "publish" =>
            LET p == trace[i].pkg IN
            /\ \E a, b \in 1..(i - 1) :
                  /\ a < b
                  /\ trace[a].ev = "fix" /\ trace[a].pkg = p
                  /\ trace[b] = Event("updateVersion", p)
                  /\ noBuild \/ \E c \in (b + 1)..(i - 1) : trace[c] = Event("build", p)
            /\ \A r \in 1..(i - 1) : trace[r] # Event("restore", p)
    /\ \A j \in TraceIdx :
         trace[j].ev = "restore" =>
            \E i \in 1..(j - 1) :
               /\ trace[i].pkg = trace[j].pkg
               /\ trace[i].ev \in {"publish", "log:build-failed"}

\* C7 witness: publish-all with builds has processed all three packages.
C7_Witness ==
    /\ action = "publish-all"
    /\ ~noBuild
    /\ pc = "exited"
    /\ exitCode = 0
    /\ \A k \in PackageIdx :
         \E i \in TraceIdx : trace[i] = Event("restore", packages[k].path)

\* C8: when publishPackage is about to run for a package, every entry of
\* its manifest's dependencies, devDependencies and peerDependencies that
\* names an internal package holds a concrete version, not a 'workspace:'
\* range.
C8_NoWorkspaceRangeAtPublish ==
    pc = "publish" =>
        \A t \in DepTypeSet, n \in InternalNames :
            LET r == fs[packages[idx].path].deps[t][n] IN
            r.kind # "absent" => r.kind = "version" /\ semverRegexOne(r.ver)

\* C9: in publish-all and publish-prerelease, a manifest has internal
\* dependencies in the fixed-version state only while it is the manifest of
\* the package being processed, between its fix and its restore; so at most
\* one manifest is in that state, and it is restored before the next one is
\* touched.
C9_OneManifestFixedAtATime ==
    action \in LoopFlows =>
        /\ \A p \in Paths :
              InFixedState(fs[p]) =>
                 /\ idx \in PackageIdx
                 /\ p = packages[idx].path
                 /\ pc \in {"update", "build", "publish", "restore"}
        /\ Cardinality({p \in Paths : InFixedState(fs[p])}) <= 1

\* C9 witness: the third package is in the fixed-version state after the
\* second one was fixed and restored.
C9_Witness ==
    /\ action \in LoopFlows
    /\ idx = 3
    /\ InFixedState(fs[packages[3].path])
    /\ \E i, j \in TraceIdx :
         /\ i < j
         /\ trace[i].ev = "fix" /\ trace[i].pkg = packages[2].path /\ trace[i].n > 0
         /\ trace[j] = Event("restore", packages[2].path)

-----------------------------------------------------------------------------
(* Properties of the code generators.                                      *)

\* an identifier of the form <prefix>Controller<Method>, Method starting
\* with an upper-case letter
HasControllerForm(w) ==
    \E k \in 2..Len(w) :
        /\ StartsWithAt(w, k, "Controller")
        /\ k + 10 <= Len(w)
        /\ IsUpper(Char(w, k + 10))

\* the <Method> of such an identifier: what follows its last such "Controller"
MethodOf(w) ==
    LET K == {k \in 2..Len(w) : /\ StartsWithAt(w, k, "Controller")
                                /\ k + 10 <= Len(w)
                                /\ IsUpper(Char(w, k + 10))}
    IN SubSeq(w, Max(K) + 10, Len(w))

\* C5: in both code-generation scripts, while the OpenAPI input file does
\* not exist the generator has not been invoked, no directory or file of
\* the output directory has been created, moved or written, the run never
\* gets past the input check, and when the process has ended its exit
\* status is 1.
C5_MissingInputExitsOne ==
    (gen.script \in Scripts /\ ~gen.inputExists) =>
        /\ gen.generatorRuns = 0
        /\ gen.made = {}
        /\ gen.files = {}
        /\ gen.pc \in {"check", "exited"}
        /\ gen.pc = "exited" => (gen.exitCode = 1 /\ gen.log = <<"error:input-missing">>)

\* C5 witness: generate-api.js has ended on a missing input file.
C5_Witness ==
    /\ gen.script = "generate-api.js"
    /\ ~gen.inputExists
    /\ gen.pc = "exited"
    /\ gen.exitCode = 1

\* C6: the import-path fix is idempotent: on a file made of import
\* statements with the paths './data-contracts', './httpClient',
\* './HttpClient', a './' path containing 'contract', './types' and the
\* already rewritten '../types/...', applying the substitutions of either
\* script again leaves the content of the first application.
C6_ImportFixIdempotent ==
    (txt.kind = "imports" /\ txt.applied >= 2) => txt.content = txt.once

\* C6 witness: fixApiImports has run twice over a file whose imports the
\* first run rewrote.
C6_Witness ==
    /\ txt.op = "fixApiImports"
    /\ txt.kind = "imports"
    /\ txt.applied = 2
    /\ txt.once # txt.input
    /\ includes(txt.input, "'./my-contracts'")
    /\ includes(txt.input, "'./types'")

\* C10: after the method renaming of either script has run over a module,
\* no identifier of the form <prefix>Controller<Method> remains in it, and
\* each such identifier of the input has become its <Method> with the first
\* letter in lower case.
C10_EveryControllerMethodRenamed ==
    (txt.kind = "methods" /\ txt.applied >= 1) =>
        /\ \A w \in IdentifiersOf(txt.content) : ~HasControllerForm(w)
        /\ \A w \in IdentifiersOf(txt.input) :
              HasControllerForm(w) => LowerFirst(MethodOf(w)) \in IdentifiersOf(txt.content)

-----------------------------------------------------------------------------
(* Properties of the order of the packages and of the versions chosen.     *)

\* dependencies first: config, then server, then client
BuildOrder == <<"config", "server", "client">>
OrderOf(path) == CHOOSE k \in 1..Len(BuildOrder) : BuildOrder[k] = path

\* C11: in a build-all, publish-prerelease or publish-all run, when a
\* package is built or published, every package earlier in the order config,
\* server, client has already been handled without a failure: built (in
\* build-all) or published (in the publish flows), or skipped.
C11_DependenciesFirst ==
    action \in {"build-all"} \cup LoopFlows =>
        \A i \in TraceIdx :
            trace[i].ev \in {"build", "publish"} =>
                \A m \in 1..(OrderOf(trace[i].pkg) - 1) :
                    /\ \E j \in 1..(i - 1) :
                          /\ trace[j].pkg = BuildOrder[m]
                          /\ trace[j].ev \in {"log:skipping",
                                              IF action = "build-all" THEN "build" ELSE "publish"}
                    /\ \A j \in 1..(i - 1) :
                          trace[j].pkg = BuildOrder[m] => trace[j].ev \notin FailureLines

\* C11 witness: publish-all is publishing the client after the config was
\* skipped and the server published.
C11_Witness ==
    /\ action = "publish-all"
    /\ \E i, j, k \in TraceIdx :
         /\ i < j /\ j < k
         /\ trace[i] = Event("log:skipping", "config")
         /\ trace[j] = Event("publish", "server")
         /\ trace[k] = Event("publish", "client")

\* the first candidate of a getNextAvailableVersion call has been computed
\* by incrementVersion(currentVersion, versionType) and not been replaced
FirstCandidate == gv.pc = "loop" /\ gv.attempts = 0

\* C12: for a version M.m.p with an optional prerelease suffix,
\* incrementVersion returns (M+1).0.0 for 'major', M.(m+1).0 for 'minor' and
\* M.m.(p+1) for 'patch', without the suffix.
C12_CoreBump ==
    (/\ FirstCandidate
     /\ semverRegexOne(gv.currentVersion)
     /\ gv.versionType \in {"major", "minor", "patch"}) =>
        LET M == gv.currentVersion.core[1]
            m == gv.currentVersion.core[2]
            p == gv.currentVersion.core[3]
        IN /\ gv.nextVersion.kind = "semver"
           /\ gv.nextVersion.pre = <<>>
           /\ gv.nextVersion.core = CASE gv.versionType = "major" -> <<M + 1, 0, 0>>
                                      [] gv.versionType = "minor" -> <<M, m + 1, 0>>
                                      [] OTHER -> <<M, m, p + 1>>

\* C12 witness: 1.1.0-beta.1 bumped by 'minor' gave 1.2.0.
C12_Witness ==
    /\ FirstCandidate
    /\ gv.currentVersion = V110b1
    /\ gv.versionType = "minor"
    /\ gv.nextVersion = Semver(<<1, 2, 0>>, <<>>)

\* C13: for type 'beta' (resp. 'alpha'), incrementVersion returns
\* B-beta.(N+1) when the version is B-beta.N, and otherwise the whole version
\* with '-beta.1' appended; what precedes the suffix is unchanged.
C13_PrereleaseBump ==
    (/\ FirstCandidate
     /\ gv.versionType \in {"beta", "alpha"}) =>
        LET v == gv.currentVersion
            n == Len(v.pre)
            exact == n > 0 /\ v.pre[n][1] = gv.versionType /\ v.pre[n][2] # NaN
        IN /\ gv.nextVersion.kind = v.kind
           /\ gv.nextVersion.core = v.core
           /\ gv.nextVersion.pre =
                 IF exact
                 THEN SubSeq(v.pre, 1, n - 1) \o << <<gv.versionType, v.pre[n][2] + 1>> >>
                 ELSE v.pre \o << <<gv.versionType, 1>> >>

\* C13 witness: 3.2.1-alpha.2-beta.7 bumped by 'beta' gave
\* 3.2.1-alpha.2-beta.8.
C13_Witness ==
    /\ FirstCandidate
    /\ gv.versionType = "beta"
    /\ gv.currentVersion = Semver(<<3, 2, 1>>, << <<"alpha", 2>>, <<"beta", 7>> >>)
    /\ gv.nextVersion = Semver(<<3, 2, 1>>, << <<"alpha", 2>>, <<"beta", 8>> >>)

\* C14: whenever a flow has chosen a new version with a bump type other than
\* 'custom' (publish-one and publish-prerelease: for the package about to be
\* fixed; publish-all: the base version, from the first package), that
\* version differs from the current version it was computed from.
C14_NewVersionDiffers ==
    /\ (pc = "fix" /\ action \in {"publish-one", "publish-prerelease"}
                   /\ versionType # "custom")
          => newVersion # getCurrentVersion(fs, packages[idx].path)
    /\ (pc = "allConfirm" /\ versionType # "custom")
          => newVersion # getCurrentVersion(fs, packages[1].path)

\* C15: the version getNextAvailableVersion returns is never one that a
\* probe of that call reported as existing.  Stated for the calls in which
\* every candidate is a new version string (a numeric version bumped by
\* major, minor, patch, beta or alpha), so that no candidate is probed twice.
C15_ReturnedVersionNotProbedExisting ==
    (/\ gv.pc = "returned"
     /\ semverRegexOne(gv.currentVersion)
     /\ gv.versionType \in {"major", "minor", "patch", "beta", "alpha"})
        => gv.result \notin gv.existing

\* C16: in a publish-all run every manifest handed to publishPackage carries
\* the version baseVersion, and every dependency on an internal package that
\* was a 'workspace:' range when the run started holds that same baseVersion.
C16_PublishAllOneVersion ==
    action = "publish-all" =>
        \A i \in 1..Len(published) :
            LET e == published[i] IN
            /\ e.manifest.version = newVersion
            /\ \A t \in DepTypeSet, n \in InternalNames :
                  IsWorkspaceRange(fs0[e.path].deps[t][n])
                     => e.manifest.deps[t][n] = Concrete(newVersion)

\* semver precedence of two versions of numeric core: by major, minor and
\* patch, and a prerelease before the release of the same core
VersionLess(a, b) ==
    \/ a.core[1] < b.core[1]
    \/ a.core[1] = b.core[1] /\ a.core[2] < b.core[2]
    \/ a.core[1] = b.core[1] /\ a.core[2] = b.core[2] /\ a.core[3] < b.core[3]
    \/ a.core = b.core /\ a.pre # <<>> /\ b.pre = <<>>

\* the highest of the versions in a name -> version map
Highest(versions) ==
    CHOOSE v \in {versions[n] : n \in InternalNames} :
        \A n \in InternalNames : ~VersionLess(v, versions[n])

\* C17: in publish-all with a bump type other than 'custom', when all three
\* packages have a numeric version, the base version is what
\* getNextAvailableVersion yields from the highest of their current versions.
C17_BaseFromHighestVersion ==
    (/\ pc = "allConfirm"
     /\ versionType # "custom"
     /\ \A n \in InternalNames : semverRegexOne(packageVersions[n]))
        => newVersion \in {getNextAvailableVersion(Highest(packageVersions), versionType, k) :
                              k \in 0..maxAttempts}

\* the branch publish-all found ("unknown": it could not be determined)
BranchOf == CHOOSE b \in Branches : \E i \in TraceIdx : trace[i] = BranchEvent(b)

\* C18: in publish-all the dist-tag passed to publishPackage is 'beta'
\* exactly when the bump type is 'beta' and the current branch is neither
\* master nor main (also when the branch could not be determined); otherwise
\* it is 'latest'.
C18_PublishAllDistTag ==
    action = "publish-all" =>
        \A i \in 1..Len(published) :
            published[i].tag = IF versionType = "beta" /\ BranchOf \notin {"master", "main"}
                               THEN "beta"
                               ELSE "latest"

\* C18 witness: a beta bump published from main, with the tag 'latest'.
C18_Witness ==
    /\ action = "publish-all"
    /\ versionType = "beta"
    /\ BranchOf = "main"
    /\ Len(published) > 0
    /\ published[1].tag = "latest"

\* C19: after a failed build or publish of a package in a publish flow, once
\* the finally block has run, the version field of its manifest holds the
\* new version updateVersion wrote; the restore has put back the internal
\* dependency ranges only.
C19_VersionKeptAfterFailure ==
    \A i \in TraceIdx :
        (/\ action \in PublishFlows
         /\ trace[i].ev \in FailureLines
         /\ pc \in {"catch", "exited"})
        => /\ fs[trace[i].pkg].version = newVersion
           /\ \E j \in TraceIdx : j > i /\ trace[j] = Event("restore", trace[i].pkg)

\* C19 witness: the run has ended after a failed build or publish, and the
\* manifest's version is not the one it had when the run started.
C19_Witness ==
    /\ pc = "exited"
    /\ action = "publish-one"
    /\ \E i \in TraceIdx :
         /\ trace[i].ev \in FailureLines
         /\ fs[trace[i].pkg].version # fs0[trace[i].pkg].version
         /\ fs[trace[i].pkg].version = newVersion
         /\ \E j \in TraceIdx : j > i /\ trace[j] = Event("restore", trace[i].pkg)

====
